---- MODULE Spec2Model ----
(***************************************************************************)
(* The in-memory social-graph API: storage.js (users, posts, follows,      *)
(* likes), the request handlers of routes/users.js, routes/posts.js,       *)
(* routes/follows.js, routes/likes.js, and the read-side computations of   *)
(* routes/feed.js and routes/suggestions.js, with seed.js as the           *)
(* alternative start-up state.                                             *)
(*                                                                         *)
(* Node runs one handler to completion before the next one starts, so each *)
(* handler is one action.  Ids in request bodies and URL parameters are    *)
(* strings, as the route files document ("{ followerId: string, ... }").   *)
(* storage.users and storage.posts are plain objects ({}), so a lookup     *)
(* storage.users[id] also finds the members every object inherits from     *)
(* Object.prototype; ProtoKeys holds a representative of those keys.       *)
(***************************************************************************)
EXTENDS Integers, Sequences, FiniteSets, TLC

VARIABLES users, posts, follows, likes, userSeq, postSeq, seedOps, resp

store == <<users, posts, follows, likes>>
vars == <<users, posts, follows, likes, userSeq, postSeq, seedOps, resp>>

(***************************************************************************)
(* Bounds of the exploration.                                              *)
(***************************************************************************)
\* A run from the empty store holds at most MaxStore records and edges; a
\* run from the seeded store serves at most MaxSeedOps requests.  Either
\* run issues at most MaxIssued user ids and MaxIssued post ids.
MaxStore == 3
MaxSeedOps == 1
MaxIssued == (MaxStore + 1) \div 2

(***************************************************************************)
(* JavaScript values that occur in payloads and responses.  A string is a  *)
(* sequence of one-character strings so that trim() and toLowerCase() are  *)
(* computed, not assumed.                                                  *)
(***************************************************************************)
Undefined == [t |-> "undefined", s |-> <<>>, n |-> 0]
NaN == [t |-> "NaN", s |-> <<>>, n |-> 0]
Null == [t |-> "null", s |-> <<>>, n |-> 0]
Str(chars) == [t |-> "string", s |-> chars, n |-> 0]
Num(k) == [t |-> "number", s |-> <<>>, n |-> k]

Truthy(v) ==
  CASE v.t = "string" -> v.s # <<>>
    [] v.t = "number" -> v.n # 0
    [] OTHER -> FALSE

IsSpace(c) == c = " "

RECURSIVE TrimStart(_)
TrimStart(s) == IF s # <<>> /\ IsSpace(Head(s)) THEN TrimStart(Tail(s)) ELSE s

RECURSIVE TrimEnd(_)
TrimEnd(s) ==
  IF s # <<>> /\ IsSpace(s[Len(s)]) THEN TrimEnd(SubSeq(s, 1, Len(s) - 1)) ELSE s

\* String.prototype.trim
Trim(s) == TrimEnd(TrimStart(s))

LowerChar(c) ==
  CASE c = "A" -> "a"
    [] c = "B" -> "b"
    [] c = "C" -> "c"
    [] c = "L" -> "l"
    [] OTHER -> c

\* String.prototype.toLowerCase
ToLowerCase(s) == [i \in 1..Len(s) |-> LowerChar(s[i])]

\* Date.prototype.toISOString of the millisecond clock value t, and the
\* reading back of that string by new Date(...): the text keeps the
\* milliseconds, so the value read back is the value written.
ToISOString(t) == [iso |-> t]
DateOf(createdAt) == createdAt.iso

(***************************************************************************)
(* Identifiers.                                                            *)
(***************************************************************************)
\* uuidv4(): the k-th id handed to a user / to a post; never repeated.
UserIdOf(k) == "u" \o ToString(k)
PostIdOf(k) == "p" \o ToString(k)

\* Keys that every plain object inherits; "constructor" stands for the
\* function-valued members of Object.prototype.
ProtoKeys == {"constructor"}

\* An id that was never issued, and the absent / empty (falsy) id.
Ghost == "ghost"
Missing == ""

SEED_IDS ==
  [users |-> [alice |-> "user-alice-0001", bob |-> "user-bob-0002",
              carol |-> "user-carol-0003", dave |-> "user-dave-0004",
              eve |-> "user-eve-0005", frank |-> "user-frank-0006"],
   posts |-> [p1 |-> "post-0001", p2 |-> "post-0002", p3 |-> "post-0003",
              p4 |-> "post-0004", p5 |-> "post-0005", p6 |-> "post-0006",
              p7 |-> "post-0007", p8 |-> "post-0008", p9 |-> "post-0009"]]

SeedUserIds == {SEED_IDS.users[k] : k \in DOMAIN SEED_IDS.users}
SeedPostIds == {SEED_IDS.posts[k] : k \in DOMAIN SEED_IDS.posts}
\* The seed ids that requests name in a seeded run: users with and without
\* followers, mutual followers and strangers; posts with and without likes
SeedCallerIds ==
  {SEED_IDS.users.alice, SEED_IDS.users.bob, SEED_IDS.users.dave, SEED_IDS.users.eve}
SeedTargetPostIds == {SEED_IDS.posts.p1, SEED_IDS.posts.p2, SEED_IDS.posts.p4}

(***************************************************************************)
(* storage.js: users and posts are objects keyed by id (kept here in key   *)
(* insertion order, the order of Object.values / Object.keys), follows and *)
(* likes are arrays.                                                       *)
(***************************************************************************)
Range(s) == {s[i] : i \in 1..Len(s)}

HasUser(id) == \E i \in 1..Len(users) : users[i].id = id
HasPost(id) == \E i \in 1..Len(posts) : posts[i].id = id

UserAt(id) == users[CHOOSE i \in 1..Len(users) : users[i].id = id]
PostIndex(id) == CHOOSE i \in 1..Len(posts) : posts[i].id = id
PostAt(id) == posts[PostIndex(id)]

\* !!storage.users[id]: an own entry, or a member inherited from
\* Object.prototype (a function, which is truthy).
UsersLookupTruthy(id) == HasUser(id) \/ id \in ProtoKeys
\* !!storage.posts[id]
PostsLookupTruthy(id) == HasPost(id) \/ id \in ProtoKeys

\* (FindIndexOrLast: the result used without the test for -1, so that
\*  splice(-1, 1) takes the last element)
FindIndexOrLast(s, e) ==
  IF \E i \in 1..Len(s) : s[i] = e
  THEN CHOOSE i \in 1..Len(s) : s[i] = e /\ \A j \in 1..(i - 1) : s[j] # e
  ELSE Len(s)

\* Array.prototype.findIndex with a predicate that compares every field of
\* the edge with those of e; 0 stands for -1
FindIndex(s, e) ==
  IF \E i \in 1..Len(s) : s[i] = e
  THEN CHOOSE i \in 1..Len(s) : s[i] = e /\ \A j \in 1..(i - 1) : s[j] # e
  ELSE 0

\* (SpliceToEnd: splice(index) without its delete count)
SpliceToEnd(s, i) == SubSeq(s, 1, i - 1)

\* Array.prototype.splice(index, 1)
Splice(s, i) == SubSeq(s, 1, i - 1) \o SubSeq(s, i + 1, Len(s))

(***************************************************************************)
(* seed.js: the demo data set, written over the store by seed().           *)
(***************************************************************************)
\* minutesAgo(n), in minutes relative to the clock at start-up
minutesAgo(t, n) == ToISOString(t - n)

SeedUser(id, name, display, ago) ==
  [id |-> id, username |-> name, displayName |-> display, bio |-> Str(<<"b">>),
   profilePicUrl |-> Str(<<"u">>), createdAt |-> minutesAgo(0, ago)]

SeedPost(id, author, media, ago) ==
  [id |-> id, authorId |-> author, content |-> <<"t">>, mediaType |-> media,
   createdAt |-> minutesAgo(0, ago), likesCount |-> 0]

seedUsers ==
  << SeedUser(SEED_IDS.users.alice, <<"a", "l", "i", "c", "e">>, <<"A">>, 120),
     SeedUser(SEED_IDS.users.bob, <<"b", "o", "b">>, <<"B">>, 110),
     SeedUser(SEED_IDS.users.carol, <<"c", "a", "r", "o", "l">>, <<"C">>, 100),
     SeedUser(SEED_IDS.users.dave, <<"d", "a", "v", "e">>, <<"D">>, 90),
     SeedUser(SEED_IDS.users.eve, <<"e", "v", "e">>, <<"E">>, 80),
     SeedUser(SEED_IDS.users.frank, <<"f", "r", "a", "n", "k">>, <<"F">>, 70) >>

seedPosts ==
  << SeedPost(SEED_IDS.posts.p1, SEED_IDS.users.alice, Null, 60),
     SeedPost(SEED_IDS.posts.p2, SEED_IDS.users.bob, Null, 55),
     SeedPost(SEED_IDS.posts.p3, SEED_IDS.users.carol, Null, 50),
     SeedPost(SEED_IDS.posts.p4, SEED_IDS.users.dave, Str(<<"image">>), 45),
     SeedPost(SEED_IDS.posts.p5, SEED_IDS.users.eve, Str(<<"image">>), 40),
     SeedPost(SEED_IDS.posts.p6, SEED_IDS.users.frank, Str(<<"image">>), 35),
     SeedPost(SEED_IDS.posts.p7, SEED_IDS.users.alice, Null, 30),
     SeedPost(SEED_IDS.posts.p8, SEED_IDS.users.bob, Str(<<"video">>), 25),
     SeedPost(SEED_IDS.posts.p9, SEED_IDS.users.carol, Null, 10) >>

Follow(a, b) == [followerId |-> a, followeeId |-> b]
Like(u, p) == [userId |-> u, postId |-> p]

followRelationships ==
  << Follow(SEED_IDS.users.alice, SEED_IDS.users.bob),
     Follow(SEED_IDS.users.alice, SEED_IDS.users.carol),
     Follow(SEED_IDS.users.alice, SEED_IDS.users.dave),
     Follow(SEED_IDS.users.bob, SEED_IDS.users.alice),
     Follow(SEED_IDS.users.bob, SEED_IDS.users.carol),
     Follow(SEED_IDS.users.carol, SEED_IDS.users.dave),
     Follow(SEED_IDS.users.eve, SEED_IDS.users.alice),
     Follow(SEED_IDS.users.eve, SEED_IDS.users.frank) >>

likeRelationships ==
  << Like(SEED_IDS.users.bob, SEED_IDS.posts.p1),
     Like(SEED_IDS.users.carol, SEED_IDS.posts.p1),
     Like(SEED_IDS.users.alice, SEED_IDS.posts.p4),
     Like(SEED_IDS.users.eve, SEED_IDS.posts.p4),
     Like(SEED_IDS.users.dave, SEED_IDS.posts.p9) >>

\* (SeedLikesUncounted: the forEach without `likesCount += 1`)
SeedLikesUncounted(ps, k) == ps

\* likeRelationships.forEach: push the edge and bump the post's likesCount,
\* one edge after the other, over the posts ps.
RECURSIVE SeedLikes(_, _)
SeedLikes(ps, k) ==
  IF k = 0 THEN ps
  ELSE LET before == SeedLikes(ps, k - 1)
           pid == likeRelationships[k].postId
       IN [i \in 1..Len(before) |->
             IF before[i].id = pid
             THEN [before[i] EXCEPT !.likesCount = @ + 1]
             ELSE before[i]]

\* seed() on the fresh store
seed ==
  [users |-> seedUsers,
   posts |-> SeedLikes(seedPosts, Len(likeRelationships)),
   follows |-> followRelationships,
   likes |-> likeRelationships]

(***************************************************************************)
(* Responses.  resp is the answer to the last request: the handler that    *)
(* wrote it, the status line, the error text and the likesCount of the     *)
(* body (Undefined when the body has none).                                *)
(***************************************************************************)
Response(op, status, error, likesCount) ==
  [op |-> op, status |-> status, error |-> error, likesCount |-> likesCount]

NoResponse == Response("none", 0, "", Undefined)

\* The store as server.js leaves it at start-up: empty when the app is
\* loaded by the tests, seeded when run directly.
InitEmpty ==
  /\ users = <<>> /\ posts = <<>> /\ follows = <<>> /\ likes = <<>>
  /\ seedOps = -1

InitSeeded ==
  /\ users = seed.users /\ posts = seed.posts
  /\ follows = seed.follows /\ likes = seed.likes
  /\ seedOps = 0

Init ==
  /\ InitEmpty \/ InitSeeded
  /\ userSeq = 0 /\ postSeq = 0
  /\ resp = NoResponse

\* Exploration budget: seedOps counts the requests served since seed(), and
\* is -1 in a run from the empty store.
Seeded == seedOps >= 0
Serve ==
  /\ Seeded => seedOps < MaxSeedOps
  /\ seedOps' = IF Seeded THEN seedOps + 1 ELSE seedOps
StoreSize == Len(users) + Len(posts) + Len(follows) + Len(likes)
Room == Seeded \/ StoreSize < MaxStore

\* Ids a caller can put in a request: every id ever issued, the seed ids,
\* inherited keys, an unknown id and no id at all.
IssuedUserIds ==
  {UserIdOf(k) : k \in 1..userSeq} \cup (IF Seeded THEN SeedCallerIds ELSE {})
IssuedPostIds ==
  {PostIdOf(k) : k \in 1..postSeq} \cup (IF Seeded THEN SeedTargetPostIds ELSE {})
UserIdInputs == IssuedUserIds \cup ProtoKeys \cup {Ghost, Missing}
PostIdInputs == IssuedPostIds \cup ProtoKeys \cup {Ghost}

\* (RejectNoStatus: res.json({ error }) without res.status, answered 200)
RejectNoStatus(op, status, error) ==
  /\ resp' = Response(op, 200, error, Undefined)
  /\ UNCHANGED store

\* res.status(...).json({ error }) with the store left as it is
Reject(op, status, error) ==
  /\ resp' = Response(op, status, error, Undefined)
  /\ UNCHANGED store

(***************************************************************************)
(* routes/follows.js                                                       *)
(***************************************************************************)
\* followerId === followeeId  (SelfFollowNever: the handler without the test)
SelfFollowNever(followerId, followeeId) == FALSE
SelfFollow(followerId, followeeId) == followerId = followeeId

\* storage.follows.some(f => f.followerId === followerId && f.followeeId === followeeId)
\* (alreadyFollowingNone: the handler without the test)
alreadyFollowingNone(followerId, followeeId) == FALSE
alreadyFollowingEdge(followerId, followeeId) ==
  \E i \in 1..Len(follows) :
     follows[i].followerId = followerId /\ follows[i].followeeId = followeeId

\* What a handler of follows.js answers, and storage.follows as it leaves it
followOutcome(status, error, fs) ==
  [status |-> status, error |-> error, follows |-> fs]

\* (followResultMutual: a follow stored in both directions)
followResultMutual(followerId, followeeId) ==
  IF followerId = Missing \/ followeeId = Missing
  THEN followOutcome(400, "followerId and followeeId are required", follows)
  ELSE IF SelfFollow(followerId, followeeId)
  THEN followOutcome(400, "a user cannot follow themselves", follows)
  ELSE IF ~UsersLookupTruthy(followerId)
  THEN followOutcome(404, "follower user not found", follows)
  ELSE IF ~UsersLookupTruthy(followeeId)
  THEN followOutcome(404, "followee user not found", follows)
  ELSE IF alreadyFollowingEdge(followerId, followeeId)
  THEN followOutcome(400, "already following this user", follows)
  ELSE followOutcome(201, "", <<Follow(followeeId, followerId)>> \o
                              Append(follows, Follow(followerId, followeeId)))

\* POST /api/follow: the handler
followResult(followerId, followeeId) ==
  IF followerId = Missing \/ followeeId = Missing
  THEN followOutcome(400, "followerId and followeeId are required", follows)
  ELSE IF SelfFollow(followerId, followeeId)
  THEN followOutcome(400, "a user cannot follow themselves", follows)
  ELSE IF ~UsersLookupTruthy(followerId)
  THEN followOutcome(404, "follower user not found", follows)
  ELSE IF ~UsersLookupTruthy(followeeId)
  THEN followOutcome(404, "followee user not found", follows)
  ELSE IF alreadyFollowingEdge(followerId, followeeId)
  THEN followOutcome(400, "already following this user", follows)
  ELSE followOutcome(201, "", Append(follows, Follow(followerId, followeeId)))

\* POST /api/follow: one request served
follow(followerId, followeeId) ==
  \E r \in {followResult(followerId, followeeId)} :
     /\ Serve
     /\ r.status = 201 => Room
     /\ follows' = r.follows
     /\ resp' = Response("follow", r.status, r.error, Undefined)
     /\ UNCHANGED <<users, posts, likes, userSeq, postSeq>>

\* DELETE /api/follow: the handler
unfollowResult(followerId, followeeId) ==
  IF followerId = Missing \/ followeeId = Missing
  THEN followOutcome(400, "followerId and followeeId are required", follows)
  ELSE LET index == FindIndex(follows, Follow(followerId, followeeId))
       IN IF index = 0
          THEN followOutcome(404, "follow relationship not found", follows)
          ELSE followOutcome(200, "", Splice(follows, index))

\* DELETE /api/follow: one request served
unfollow(followerId, followeeId) ==
  \E r \in {unfollowResult(followerId, followeeId)} :
     /\ Serve
     /\ follows' = r.follows
     /\ resp' = Response("unfollow", r.status, r.error, Undefined)
     /\ UNCHANGED <<users, posts, likes, userSeq, postSeq>>

(***************************************************************************)
(* routes/likes.js                                                         *)
(***************************************************************************)
\* (BumpLikesDown: the counter moved the wrong way, -= instead of +=)
BumpLikesDown(ps, postId, delta) ==
  [i \in 1..Len(ps) |->
     IF ps[i].id = postId
     THEN [ps[i] EXCEPT !.likesCount = @ - delta]
     ELSE ps[i]]

\* post.likesCount after `post.likesCount += delta` on the posts ps
BumpLikes(ps, postId, delta) ==
  [i \in 1..Len(ps) |->
     IF ps[i].id = postId
     THEN [ps[i] EXCEPT !.likesCount = @ + delta]
     ELSE ps[i]]

\* (FloorLikesAtOne: the floor set at 1, Math.max(1, post.likesCount - 1))
FloorLikesAtOne(ps, postId) ==
  [i \in 1..Len(ps) |->
     IF ps[i].id = postId
     THEN [ps[i] EXCEPT !.likesCount = IF @ - 1 > 1 THEN @ - 1 ELSE 1]
     ELSE ps[i]]

\* (FloorLikesForgotten: unlike that leaves the counter as it was)
FloorLikesForgotten(ps, postId) == ps

\* Math.max(0, post.likesCount - 1) written back to the post
FloorLikes(ps, postId) ==
  [i \in 1..Len(ps) |->
     IF ps[i].id = postId
     THEN [ps[i] EXCEPT !.likesCount = IF @ - 1 > 0 THEN @ - 1 ELSE 0]
     ELSE ps[i]]

\* The likesCount the response reads back from `post`.  When postId is an
\* inherited key, `post` is a built-in function whose likesCount is
\* undefined (or NaN after an earlier request), and the arithmetic gives NaN.
LikesCountOf(ps, postId) ==
  IF \E i \in 1..Len(ps) : ps[i].id = postId
  THEN Num(ps[CHOOSE i \in 1..Len(ps) : ps[i].id = postId].likesCount)
  ELSE NaN

\* storage.likes.some(l => l.userId === userId && l.postId === postId)
\* (alreadyLikedNever: the handler without the test)
alreadyLikedNever(userId, postId) == FALSE
alreadyLiked(userId, postId) ==
  \E i \in 1..Len(likes) : likes[i].userId = userId /\ likes[i].postId = postId

\* What a handler of likes.js answers, and storage.likes and the posts as
\* it leaves them
likeOutcome(status, error, ls, ps) ==
  [status |-> status, error |-> error, likes |-> ls, posts |-> ps]

\* POST /api/posts/:id/like: the handler
likeResult(postId, userId) ==
  IF userId = Missing
  THEN likeOutcome(400, "userId is required", likes, posts)
  ELSE IF ~PostsLookupTruthy(postId)
  THEN likeOutcome(404, "post not found", likes, posts)
  ELSE IF ~UsersLookupTruthy(userId)
  THEN likeOutcome(404, "user not found", likes, posts)
  ELSE IF alreadyLiked(userId, postId)
  THEN likeOutcome(400, "post already liked by this user", likes, posts)
  ELSE likeOutcome(201, "", Append(likes, Like(userId, postId)),
                   BumpLikes(posts, postId, 1))

\* POST /api/posts/:id/like: one request served
like(postId, userId) ==
  \E r \in {likeResult(postId, userId)} :
     /\ Serve
     /\ r.status = 201 => Room
     /\ likes' = r.likes
     /\ posts' = r.posts
     /\ resp' = Response("like", r.status, r.error,
                         IF r.status = 201 THEN LikesCountOf(r.posts, postId)
                         ELSE Undefined)
     /\ UNCHANGED <<users, follows, userSeq, postSeq>>

\* (likeNotFoundAfterFloor: the counter lowered before the edge is looked up)
likeNotFoundAfterFloor(postId) ==
  likeOutcome(404, "like not found", likes, FloorLikes(posts, postId))

\* if (index === -1) return res.status(404).json({ error: 'like not found' })
likeNotFound(postId) == likeOutcome(404, "like not found", likes, posts)

\* DELETE /api/posts/:id/like: the handler
unlikeResult(postId, userId) ==
  IF userId = Missing
  THEN likeOutcome(400, "userId is required", likes, posts)
  ELSE IF ~PostsLookupTruthy(postId)
  THEN likeOutcome(404, "post not found", likes, posts)
  ELSE LET index == FindIndex(likes, Like(userId, postId))
       IN IF index = 0
          THEN likeNotFound(postId)
          ELSE likeOutcome(200, "", Splice(likes, index), FloorLikes(posts, postId))

\* DELETE /api/posts/:id/like: one request served
unlike(postId, userId) ==
  \E r \in {unlikeResult(postId, userId)} :
     /\ Serve
     /\ likes' = r.likes
     /\ posts' = r.posts
     /\ resp' = Response("unlike", r.status, r.error,
                         IF r.status = 200 THEN LikesCountOf(r.posts, postId)
                         ELSE Undefined)
     /\ UNCHANGED <<users, follows, userSeq, postSeq>>

\* new Date(): a reading of the wall clock, which the handler does not
\* control: two requests may read the same millisecond, and the clock may
\* have been set back between them.  Users are registered at reading 0.
Clock == {0, 1}
UserClock == {0}

(***************************************************************************)
(* routes/posts.js                                                         *)
(***************************************************************************)
PostPayloads ==
  [text |-> [content |-> Str(<<" ", "h", "i">>), mediaType |-> Undefined],
   noContent |-> [content |-> Undefined, mediaType |-> Undefined],
   blank |-> [content |-> Str(<<" ">>), mediaType |-> Undefined],
   numContent |-> [content |-> Num(7), mediaType |-> Undefined],
   gif |-> [content |-> Str(<<"h", "i">>), mediaType |-> Str(<<"gif">>)]]

\* POST /api/posts
createPost(authorId, payload) ==
  LET content == PostPayloads[payload].content
      mediaType == PostPayloads[payload].mediaType
  IN
  /\ Serve
  /\ UNCHANGED userSeq
  /\ IF authorId = Missing \/ ~UsersLookupTruthy(authorId)
     THEN /\ Reject("createPost", 400, "authorId is missing or does not refer to a valid user")
          /\ UNCHANGED postSeq
     ELSE IF ~Truthy(content) \/ content.t # "string" \/ Trim(content.s) = <<>>
     THEN /\ Reject("createPost", 400, "content is required")
          /\ UNCHANGED postSeq
     ELSE IF mediaType.t \notin {"undefined", "null"}
             /\ mediaType \notin {Str(<<"image">>), Str(<<"video">>)}
     THEN /\ Reject("createPost", 400, "mediaType must be image, video, or null")
          /\ UNCHANGED postSeq
     ELSE /\ postSeq < MaxIssued
          /\ Room
          /\ postSeq' = postSeq + 1
          /\ \E now \in Clock : posts' = Append(posts,
               [id |-> PostIdOf(postSeq + 1), authorId |-> authorId,
                content |-> Trim(content.s),
                mediaType |-> IF Truthy(mediaType) THEN mediaType ELSE Null,
                createdAt |-> ToISOString(now), likesCount |-> 0])
          /\ resp' = Response("createPost", 201, "", Num(0))
          /\ UNCHANGED <<users, follows, likes>>

\* (deletePostDroppingLikes: a clean-up that empties storage.likes)
deletePostDroppingLikes(id) ==
  /\ Serve
  /\ UNCHANGED <<userSeq, postSeq>>
  /\ IF ~PostsLookupTruthy(id)
     THEN Reject("deletePost", 404, "post not found")
     ELSE /\ likes' = <<>>
          /\ posts' = SelectSeq(posts, LAMBDA p : p.id # id)
          /\ resp' = Response("deletePost", 204, "", Undefined)
          /\ UNCHANGED <<users, follows>>

\* DELETE /api/posts/:id
deletePost(id) ==
  /\ Serve
  /\ UNCHANGED <<userSeq, postSeq>>
  /\ IF ~PostsLookupTruthy(id)
     THEN Reject("deletePost", 404, "post not found")
     ELSE /\ likes' = SelectSeq(likes, LAMBDA l : l.postId # id)
          /\ posts' = SelectSeq(posts, LAMBDA p : p.id # id)
          /\ resp' = Response("deletePost", 204, "", Undefined)
          /\ UNCHANGED <<users, follows>>

(***************************************************************************)
(* routes/users.js                                                         *)
(***************************************************************************)
UserPayloads ==
  [Al |-> [username |-> Str(<<"A", "l">>), displayName |-> Str(<<" ", "A", " ">>),
           bio |-> Undefined, profilePicUrl |-> Undefined],
   al |-> [username |-> Str(<<" ", "a", "l">>), displayName |-> Str(<<"a">>),
           bio |-> Str(<<" ", "x", " ">>), profilePicUrl |-> Str(<<"u">>)],
   b |-> [username |-> Str(<<"B", " ">>), displayName |-> Str(<<"B">>),
          bio |-> Undefined, profilePicUrl |-> Undefined],
   noName |-> [username |-> Undefined, displayName |-> Str(<<"N">>),
               bio |-> Undefined, profilePicUrl |-> Undefined],
   blankName |-> [username |-> Str(<<" ">>), displayName |-> Str(<<"N">>),
                  bio |-> Undefined, profilePicUrl |-> Undefined],
   numName |-> [username |-> Num(7), displayName |-> Str(<<"N">>),
                bio |-> Undefined, profilePicUrl |-> Undefined],
   noDisplay |-> [username |-> Str(<<"c">>), displayName |-> Undefined,
                  bio |-> Undefined, profilePicUrl |-> Undefined],
   blankDisplay |-> [username |-> Str(<<"c">>), displayName |-> Str(<<" ">>),
                     bio |-> Undefined, profilePicUrl |-> Undefined],
   numBio |-> [username |-> Str(<<"c">>), displayName |-> Str(<<"C">>),
               bio |-> Num(7), profilePicUrl |-> Undefined]]

\* !v || typeof v !== 'string' || v.trim() === ''
NotAName(v) == ~Truthy(v) \/ v.t # "string" \/ Trim(v.s) = <<>>

\* (UsernameTakenExact: the comparison without toLowerCase on the stored name)
UsernameTakenExact(nameLower) ==
  \E i \in 1..Len(users) : users[i].username = nameLower

\* Object.values(storage.users).some(u => u.username.toLowerCase() === nameLower)
UsernameTaken(nameLower) ==
  \E i \in 1..Len(users) : ToLowerCase(users[i].username) = nameLower

\* (createUserReusingId: an id generator that returns the id it returned
\*  last, so that storage.users[user.id] = user overwrites that record)
createUserReusingId(payload) ==
  LET body == UserPayloads[payload]
      nameLower == ToLowerCase(Trim(body.username.s))
  IN
  /\ Serve
  /\ UNCHANGED postSeq
  /\ IF NotAName(body.username)
     THEN Reject("createUser", 400, "username is required") /\ UNCHANGED userSeq
     ELSE IF NotAName(body.displayName)
     THEN Reject("createUser", 400, "displayName is required") /\ UNCHANGED userSeq
     ELSE IF UsernameTaken(nameLower)
     THEN Reject("createUser", 400, "username already taken") /\ UNCHANGED userSeq
     ELSE IF Truthy(body.bio) /\ body.bio.t # "string"
     THEN \* bio.trim is not a function: the error handler of server.js answers
          Reject("createUser", 500, "Internal Server Error") /\ UNCHANGED userSeq
     ELSE /\ userSeq < MaxIssued
          /\ Room
          /\ userSeq' = userSeq + 1
          /\ \E now \in UserClock : users' = Append(SubSeq(users, 1, Len(users) - 1),
               [id |-> UserIdOf(userSeq + 1),
                username |-> Trim(body.username.s),
                displayName |-> Trim(body.displayName.s),
                bio |-> IF Truthy(body.bio) THEN Str(Trim(body.bio.s)) ELSE Str(<<>>),
                profilePicUrl |-> IF Truthy(body.profilePicUrl)
                                  THEN body.profilePicUrl ELSE Null,
                createdAt |-> ToISOString(now)])
          /\ resp' = Response("createUser", 201, "", Undefined)
          /\ UNCHANGED <<posts, follows, likes>>

\* POST /api/users
createUser(payload) ==
  LET body == UserPayloads[payload]
      nameLower == ToLowerCase(Trim(body.username.s))
  IN
  /\ Serve
  /\ UNCHANGED postSeq
  /\ IF NotAName(body.username)
     THEN Reject("createUser", 400, "username is required") /\ UNCHANGED userSeq
     ELSE IF NotAName(body.displayName)
     THEN Reject("createUser", 400, "displayName is required") /\ UNCHANGED userSeq
     ELSE IF UsernameTaken(nameLower)
     THEN Reject("createUser", 400, "username already taken") /\ UNCHANGED userSeq
     ELSE IF Truthy(body.bio) /\ body.bio.t # "string"
     THEN \* bio.trim is not a function: the error handler of server.js answers
          Reject("createUser", 500, "Internal Server Error") /\ UNCHANGED userSeq
     ELSE /\ userSeq < MaxIssued
          /\ Room
          /\ userSeq' = userSeq + 1
          /\ \E now \in UserClock : users' = Append(users,
               [id |-> UserIdOf(userSeq + 1),
                username |-> Trim(body.username.s),
                displayName |-> Trim(body.displayName.s),
                bio |-> IF Truthy(body.bio) THEN Str(Trim(body.bio.s)) ELSE Str(<<>>),
                profilePicUrl |-> IF Truthy(body.profilePicUrl)
                                  THEN body.profilePicUrl ELSE Null,
                createdAt |-> ToISOString(now)])
          /\ resp' = Response("createUser", 201, "", Undefined)
          /\ UNCHANGED <<posts, follows, likes>>

(***************************************************************************)
(* storage.js reset(), and the wall clock read by new Date().              *)
(***************************************************************************)
\* (resetKeepsLikes: a reset() without its last assignment)
resetKeepsLikes ==
  /\ Serve
  /\ users' = <<>> /\ posts' = <<>> /\ follows' = <<>> /\ UNCHANGED likes
  /\ resp' = Response("reset", 0, "", Undefined)
  /\ UNCHANGED <<userSeq, postSeq>>

reset ==
  /\ Serve
  /\ users' = <<>> /\ posts' = <<>> /\ follows' = <<>> /\ likes' = <<>>
  /\ resp' = Response("reset", 0, "", Undefined)
  /\ UNCHANGED <<userSeq, postSeq>>


(***************************************************************************)
(* Array.prototype.sort((a, b) => key(b) - key(a)) over <<key, item>>      *)
(* pairs: a stable sort, larger keys first.  A difference that is NaN      *)
(* (a key that is not a number) counts as 0, as SortCompare prescribes.    *)
(***************************************************************************)
\* (CompareAsc: the comparator with its operands swapped, a - b)
CompareAsc(a, b) ==
  IF a[1].t = "number" /\ b[1].t = "number" THEN a[1].n - b[1].n ELSE 0

\* b - a, the comparator's result for the pair (a, b); 0 stands for NaN too
CompareDesc(a, b) ==
  IF a[1].t = "number" /\ b[1].t = "number" THEN b[1].n - a[1].n ELSE 0

RECURSIVE InsertStable(_, _)
InsertStable(sorted, x) ==
  IF sorted = <<>> THEN <<x>>
  ELSE LET last == sorted[Len(sorted)]
       IN IF CompareDesc(last, x) > 0
          THEN Append(InsertStable(SubSeq(sorted, 1, Len(sorted) - 1), x), last)
          ELSE Append(sorted, x)

RECURSIVE SortDesc(_)
SortDesc(pairs) ==
  IF pairs = <<>> THEN <<>>
  ELSE InsertStable(SortDesc(SubSeq(pairs, 1, Len(pairs) - 1)), pairs[Len(pairs)])

(***************************************************************************)
(* routes/feed.js                                                          *)
(***************************************************************************)
\* new Set(array) as forEach walks it: the distinct values, each at its
\* first occurrence
RECURSIVE SetOrder(_)
SetOrder(s) ==
  IF s = <<>> THEN <<>>
  ELSE LET front == SetOrder(SubSeq(s, 1, Len(s) - 1))
       IN IF s[Len(s)] \in Range(front) THEN front ELSE Append(front, s[Len(s)])

\* (FollowerIds: the filter on the wrong end of the edge;
\*  FolloweeIdsAndSelf: the requester counted among the followed)
FollowerIds(userId) ==
  LET mine == SelectSeq(follows, LAMBDA f : f.followeeId = userId)
  IN SetOrder([i \in 1..Len(mine) |-> mine[i].followerId])
FolloweeIdsAndSelf(userId) ==
  LET mine == SelectSeq(follows, LAMBDA f : f.followerId = userId)
  IN SetOrder(<<userId>> \o [i \in 1..Len(mine) |-> mine[i].followeeId])

\* new Set(storage.follows.filter(f => f.followerId === userId)
\*                        .map(f => f.followeeId))
FolloweeIds(userId) ==
  LET mine == SelectSeq(follows, LAMBDA f : f.followerId = userId)
  IN SetOrder([i \in 1..Len(mine) |-> mine[i].followeeId])

\* storage.users[id] || null as it is embedded in a response body
AuthorOf(id) ==
  IF HasUser(id) THEN [t |-> "user", id |-> id]
  ELSE IF id \in ProtoKeys THEN [t |-> "function", id |-> id]
  ELSE [t |-> "null", id |-> id]

\* GET /api/feed/:userId
buildFeed(userId) ==
  IF ~UsersLookupTruthy(userId)
  THEN [status |-> 404, body |-> <<>>]
  ELSE LET followingIds == Range(FolloweeIds(userId))
           mine == SelectSeq(posts, LAMBDA p : p.authorId \in followingIds)
           keyed == [i \in 1..Len(mine) |-> <<Num(DateOf(mine[i].createdAt)), mine[i]>>]
           sorted == SortDesc(keyed)
       IN [status |-> 200,
           body |-> [i \in 1..Len(sorted) |->
                       [post |-> sorted[i][2], author |-> AuthorOf(sorted[i][2].authorId)]]]

(***************************************************************************)
(* routes/users.js, GET /api/users/:id/suggestions                         *)
(***************************************************************************)
\* mutualCounts is an object used as a map: a sequence of <<key, value>> in
\* key insertion order.  Reading a key it does not own finds what {} inherits.
OwnIndex(counts, key) ==
  IF \E i \in 1..Len(counts) : counts[i][1] = key
  THEN CHOOSE i \in 1..Len(counts) : counts[i][1] = key
  ELSE 0

\* (TallyFromOne: a first sighting counted as 2, as from a default of 1)
TallyFromOne(counts, candidate) ==
  LET k == OwnIndex(counts, candidate)
  IN IF k # 0
     THEN [counts EXCEPT ![k] = <<candidate, Num(@[2].n + 1)>>]
     ELSE Append(counts, <<candidate, Num(2)>>)

\* mutualCounts[candidate] = (mutualCounts[candidate] || 0) + 1
Tally(counts, candidate) ==
  LET k == OwnIndex(counts, candidate)
  IN IF k # 0
     THEN [counts EXCEPT ![k] =
             <<candidate,
               IF @[2].t = "number" THEN Num(@[2].n + 1)
               ELSE Str(Append(@[2].s, "1"))>>]
     ELSE IF candidate \in ProtoKeys
     THEN \* the inherited function is truthy: function + 1 is a string
          Append(counts, <<candidate, Str(<<"function", "1">>)>>)
     ELSE Append(counts, <<candidate, Num(1)>>)

\* (TallyEdgesAll: the inner forEach without its exclusion test)
RECURSIVE TallyEdgesAll(_, _, _, _, _)
TallyEdgesAll(counts, edges, k, userId, alreadyFollowing) ==
  IF k = 0 THEN counts
  ELSE Tally(TallyEdgesAll(counts, edges, k - 1, userId, alreadyFollowing),
             edges[k].followeeId)

\* The inner forEach over one followee's outgoing edges, edges 1..k
RECURSIVE TallyEdges(_, _, _, _, _)
TallyEdges(counts, edges, k, userId, alreadyFollowing) ==
  IF k = 0 THEN counts
  ELSE LET before == TallyEdges(counts, edges, k - 1, userId, alreadyFollowing)
           candidate == edges[k].followeeId
       IN IF candidate = userId \/ candidate \in alreadyFollowing
          THEN before
          ELSE Tally(before, candidate)

\* alreadyFollowing.forEach over followees 1..k
RECURSIVE TallyFollowees(_, _, _, _)
TallyFollowees(followees, k, userId, alreadyFollowing) ==
  IF k = 0 THEN <<>>
  ELSE TallyEdges(TallyFollowees(followees, k - 1, userId, alreadyFollowing),
                  SelectSeq(follows, LAMBDA f : f.followerId = followees[k]),
                  Len(SelectSeq(follows, LAMBDA f : f.followerId = followees[k])),
                  userId, alreadyFollowing)

\* Object.keys(storage.users).forEach over users 1..k: candidates with no
\* mutual connection get 0 (`uid in mutualCounts` also sees inherited keys)
RECURSIVE FillZero(_, _, _, _)
FillZero(counts, k, userId, alreadyFollowing) ==
  IF k = 0 THEN counts
  ELSE LET before == FillZero(counts, k - 1, userId, alreadyFollowing)
           uid == users[k].id
       IN IF uid = userId \/ uid \in alreadyFollowing THEN before
          ELSE IF OwnIndex(before, uid) # 0 \/ uid \in ProtoKeys THEN before
          ELSE Append(before, <<uid, Num(0)>>)

\* { ...storage.users[uid], mutualCount }: the user's fields when uid is a
\* stored user, and nothing but mutualCount otherwise
SuggestionEntry(uid, mutualCount) ==
  [isUser |-> HasUser(uid), id |-> IF HasUser(uid) THEN uid ELSE Missing,
   mutualCount |-> mutualCount]

suggest(userId) ==
  IF ~UsersLookupTruthy(userId)
  THEN [status |-> 404, body |-> <<>>]
  ELSE LET followees == FolloweeIds(userId)
           alreadyFollowing == Range(followees)
           reached == TallyFollowees(followees, Len(followees), userId, alreadyFollowing)
           mutualCounts == FillZero(reached, Len(users), userId, alreadyFollowing)
           keyed == [i \in 1..Len(mutualCounts) |-> <<mutualCounts[i][2], mutualCounts[i][1]>>]
           sorted == SortDesc(keyed)
       IN [status |-> 200,
           body |-> [i \in 1..Len(sorted) |-> SuggestionEntry(sorted[i][2], sorted[i][1])]]

(***************************************************************************)
(* routes/suggestions.js, GET /api/suggestions/:id                         *)
(***************************************************************************)
\* (computeSuggestionsUnfilled: the computation without its
\*  Object.keys(storage.users) pass)
computeSuggestionsUnfilled(userId) ==
  LET followees == FolloweeIds(userId)
      alreadyFollowing == Range(followees)
      mutualCounts == TallyFollowees(followees, Len(followees), userId, alreadyFollowing)
      keyed == [i \in 1..Len(mutualCounts) |-> <<mutualCounts[i][2], mutualCounts[i][1]>>]
      sorted == SortDesc(keyed)
  IN [i \in 1..Len(sorted) |-> SuggestionEntry(sorted[i][2], sorted[i][1])]

\* function computeSuggestions(userId): it makes no existence check itself
computeSuggestions(userId) ==
  LET followees == FolloweeIds(userId)
      alreadyFollowing == Range(followees)
      reached == TallyFollowees(followees, Len(followees), userId, alreadyFollowing)
      mutualCounts == FillZero(reached, Len(users), userId, alreadyFollowing)
      keyed == [i \in 1..Len(mutualCounts) |-> <<mutualCounts[i][2], mutualCounts[i][1]>>]
      sorted == SortDesc(keyed)
  IN [i \in 1..Len(sorted) |-> SuggestionEntry(sorted[i][2], sorted[i][1])]

\* router.get('/:id') of the router mounted at /api/suggestions
suggestionsRoute(id) ==
  IF ~UsersLookupTruthy(id)
  THEN [status |-> 404, body |-> <<>>]
  ELSE [status |-> 200, body |-> computeSuggestions(id)]

(***************************************************************************)
(* Read handlers: GET /api/posts/:id/likes (routes/posts.js) and           *)
(* GET /api/users/:id, /followers, /following (routes/users.js).           *)
(***************************************************************************)
\* (ResolveRecords: a filter that keeps only what has an id,
\*  .filter(u => u && u.id))
ResolveRecords(ids) ==
  LET found == [i \in 1..Len(ids) |-> AuthorOf(ids[i])]
  IN SelectSeq(found, LAMBDA v : v.t = "user")

\* .map(l => storage.users[l.userId]).filter(Boolean): what the lookup finds
\* for each id, the ids that find nothing dropped
Resolve(ids) ==
  LET found == [i \in 1..Len(ids) |-> AuthorOf(ids[i])]
  IN SelectSeq(found, LAMBDA v : v.t # "null")

\* GET /api/posts/:id/likes
listLikers(id) ==
  IF ~PostsLookupTruthy(id)
  THEN [status |-> 404, body |-> <<>>]
  ELSE LET mine == SelectSeq(likes, LAMBDA l : l.postId = id)
       IN [status |-> 200,
           body |-> Resolve([i \in 1..Len(mine) |-> mine[i].userId])]

\* GET /api/users/:id: the computed counts of the profile
profile(id) ==
  IF ~UsersLookupTruthy(id)
  THEN [status |-> 404, followerCount |-> 0, followingCount |-> 0, postCount |-> 0]
  ELSE [status |-> 200,
        followerCount |-> Len(SelectSeq(follows, LAMBDA f : f.followeeId = id)),
        followingCount |-> Len(SelectSeq(follows, LAMBDA f : f.followerId = id)),
        postCount |-> Len(SelectSeq(posts, LAMBDA p : p.authorId = id))]

\* GET /api/users/:id/followers
followersOf(id) ==
  IF ~UsersLookupTruthy(id)
  THEN [status |-> 404, body |-> <<>>]
  ELSE LET mine == SelectSeq(follows, LAMBDA f : f.followeeId = id)
       IN [status |-> 200,
           body |-> Resolve([i \in 1..Len(mine) |-> mine[i].followerId])]

\* GET /api/users/:id/following
followingOf(id) ==
  IF ~UsersLookupTruthy(id)
  THEN [status |-> 404, body |-> <<>>]
  ELSE LET mine == SelectSeq(follows, LAMBDA f : f.followerId = id)
       IN [status |-> 200,
           body |-> Resolve([i \in 1..Len(mine) |-> mine[i].followeeId])]

\* GET /api/users
listUsers == [status |-> 200, body |-> users]

\* GET /api/posts: every post, newest first
listPosts ==
  LET keyed == [i \in 1..Len(posts) |-> <<Num(DateOf(posts[i].createdAt)), posts[i]>>]
      sorted == SortDesc(keyed)
  IN [status |-> 200, body |-> [i \in 1..Len(sorted) |-> sorted[i][2]]]

\* GET /api/posts/:id
getPost(id) ==
  IF ~PostsLookupTruthy(id)
  THEN [status |-> 404, author |-> AuthorOf(Missing)]
  ELSE IF HasPost(id)
  THEN [status |-> 200, author |-> AuthorOf(PostAt(id).authorId)]
  ELSE \* the inherited function has no authorId: storage.users[undefined]
       [status |-> 200, author |-> AuthorOf(Missing)]

(***************************************************************************)
(* The failure kinds the error texts of the handlers stand for.            *)
(***************************************************************************)
ConflictErrors ==
  {"already following this user", "post already liked by this user",
   "username already taken"}
NotFoundErrors ==
  {"follower user not found", "followee user not found",
   "follow relationship not found", "post not found", "user not found",
   "like not found"}
FailureKind(error) ==
  IF error = "" THEN "none"
  ELSE IF error \in ConflictErrors THEN "Conflict"
  ELSE IF error \in NotFoundErrors THEN "NotFound"
  ELSE IF error = "Internal Server Error" THEN "Crash"
  ELSE "Validation"

(***************************************************************************)
(* Definitions shared by the properties.                                   *)
(***************************************************************************)
StoredUserIds == {users[i].id : i \in 1..Len(users)}
\* u follows b: the edge (u, b) is in storage.follows
Follows(u, b) == \E i \in 1..Len(follows) : follows[i] = Follow(u, b)
LikeEdgesOn(postId) == {j \in 1..Len(likes) : likes[j].postId = postId}
FeedOf(u) == buildFeed(u).body
SuggestionsOf(u) == suggest(u).body

Next ==
  \/ \E payload \in DOMAIN UserPayloads : createUser(payload)
  \/ \E a \in UserIdInputs, payload \in DOMAIN PostPayloads : createPost(a, payload)
  \/ \E p \in PostIdInputs : deletePost(p)
  \/ \E a, b \in UserIdInputs : follow(a, b)
  \/ \E a, b \in UserIdInputs : unfollow(a, b)
  \/ \E p \in PostIdInputs, u \in UserIdInputs : like(p, u)
  \/ \E p \in PostIdInputs, u \in UserIdInputs : unlike(p, u)
  \/ reset

Spec == Init /\ [][Next]_vars

(***************************************************************************)
(* Properties                                                              *)
(***************************************************************************)

\* C1: every stored post's likesCount equals the number of like edges whose
\* postId is that post, in every state reachable from the empty or the
\* seeded store.
C1_LikesCountMatchesEdges ==
  \A i \in 1..Len(posts) :
     posts[i].likesCount = Cardinality(LikeEdgesOn(posts[i].id))

\* An unlike has just succeeded on a post that still has a like.
C1_Witness ==
  /\ resp.op = "unlike" /\ resp.status = 200
  /\ \E i \in 1..Len(posts) :
        posts[i].likesCount >= 1 /\ resp.likesCount = Num(posts[i].likesCount)

\* C2: the follows collection holds at most one edge per ordered pair
\* (followerId, followeeId).
C2_NoDuplicateFollow ==
  \A i, j \in 1..Len(follows) : follows[i] = follows[j] => i = j

\* A follow of a pair that is already present has just been refused.
C2_Witness ==
  /\ resp.op = "follow" /\ resp.error = "already following this user"
  /\ follows # <<>>

\* C3: follow(u,u) by a stored user u is answered 400 and adds no edge, and
\* no state holds an edge whose followerId equals its followeeId.
C3_NoSelfFollow ==
  /\ [](\A i \in 1..Len(follows) : follows[i].followerId # follows[i].followeeId)
  /\ [][\A u \in StoredUserIds :
          follow(u, u) => resp'.status = 400 /\ follows' = follows]_vars

\* A self-follow has just been refused while users are stored.
C3_Witness ==
  /\ resp.op = "follow" /\ resp.status = 400
  /\ resp.error = "a user cannot follow themselves"
  /\ users # <<>>

\* C4: the likes collection holds at most one edge per pair (userId, postId).
C4_NoDuplicateLike ==
  \A i, j \in 1..Len(likes) : likes[i] = likes[j] => i = j

\* A second like of the same post by the same user has just been refused.
C4_Witness ==
  /\ resp.op = "like" /\ resp.error = "post already liked by this user"
  /\ likes # <<>>

\* C5: for a stored user u, the feed holds each stored post whose author u
\* follows exactly once, and no post whose author u does not follow.
C5_FeedIsPostsOfFollowees ==
  \A u \in StoredUserIds :
     LET feed == FeedOf(u)
     IN /\ buildFeed(u).status = 200
        /\ \A i \in 1..Len(posts) :
              Follows(u, posts[i].authorId) =>
                Cardinality({k \in 1..Len(feed) : feed[k].post = posts[i]}) = 1
        /\ \A k \in 1..Len(feed) :
              /\ Follows(u, feed[k].post.authorId)
              /\ feed[k].post \in Range(posts)

\* After an unfollow, some user's feed holds posts of two followed authors
\* and leaves out a post of an author that user does not follow.
C5_Witness ==
  /\ resp.op = "unfollow" /\ resp.status = 200
  /\ \E u \in StoredUserIds :
        LET feed == FeedOf(u)
        IN /\ \E k, m \in 1..Len(feed) :
                 feed[k].post.authorId # feed[m].post.authorId
           /\ \E i \in 1..Len(posts) :
                 posts[i].authorId # u /\ ~Follows(u, posts[i].authorId)

\* C6: the feed of a stored user u never holds a post whose authorId is u.
C6_FeedExcludesOwnPosts ==
  \A u \in StoredUserIds :
     LET feed == FeedOf(u)
     IN \A k \in 1..Len(feed) : feed[k].post.authorId # u

\* A user who follows others has just posted and has a non-empty feed.
C6_Witness ==
  /\ resp.op = "createPost" /\ resp.status = 201
  /\ \E u \in StoredUserIds :
        /\ posts[Len(posts)].authorId = u
        /\ FeedOf(u) # <<>>

\* C7: the feed of a stored user is ordered newest first.
C7_FeedNewestFirst ==
  \A u \in StoredUserIds :
     LET feed == FeedOf(u)
     IN \A k \in 1..(Len(feed) - 1) :
           DateOf(feed[k].post.createdAt) >= DateOf(feed[k + 1].post.createdAt)

\* A followed author has just posted: the feed holds the new post and an
\* older one stored before it.
C7_Witness ==
  /\ resp.op = "createPost" /\ resp.status = 201
  /\ \E u \in StoredUserIds :
        \E i, j \in 1..Len(posts) :
           /\ i < j /\ j = Len(posts)
           /\ DateOf(posts[i].createdAt) < DateOf(posts[j].createdAt)
           /\ Follows(u, posts[i].authorId) /\ Follows(u, posts[j].authorId)
           /\ Len(FeedOf(u)) >= 2

\* C8: the suggestions of a stored user u hold neither u nor a user that u
\* follows.
C8_SuggestionsExcludeSelfAndFollowed ==
  \A u \in StoredUserIds :
     LET suggestions == SuggestionsOf(u)
     IN \A k \in 1..Len(suggestions) :
           suggestions[k].isUser =>
             /\ suggestions[k].id # u
             /\ ~Follows(u, suggestions[k].id)

\* After a follow, a followee of u follows u back and follows another
\* followee of u, and u still gets suggestions.
C8_Witness ==
  /\ resp.op = "follow" /\ resp.status = 201
  /\ \E u, f, g \in StoredUserIds :
        /\ Follows(u, f) /\ Follows(u, g) /\ Follows(f, u) /\ Follows(f, g)
        /\ SuggestionsOf(u) # <<>>

\* C9: the suggestions of a stored user u are stored users, each user other
\* than u and u's followees exactly once, with a mutualCount >= 0.
C9_SuggestionsAreTheOtherUsers ==
  \A u \in StoredUserIds :
     LET suggestions == SuggestionsOf(u)
     IN /\ \A k \in 1..Len(suggestions) :
              /\ suggestions[k].isUser
              /\ suggestions[k].mutualCount.t = "number"
              /\ suggestions[k].mutualCount.n >= 0
        /\ \A k, m \in 1..Len(suggestions) :
              suggestions[k].id = suggestions[m].id => k = m
        /\ {suggestions[k].id : k \in 1..Len(suggestions)}
             = StoredUserIds \ ({u} \cup {b \in StoredUserIds : Follows(u, b)})

\* C10: the suggestions are ranked by mutualCount, largest first.
C10_SuggestionsRankedByMutualCount ==
  \A u \in StoredUserIds :
     LET suggestions == SuggestionsOf(u)
     IN \A k \in 1..(Len(suggestions) - 1) :
           /\ suggestions[k].mutualCount.t = "number"
           /\ suggestions[k + 1].mutualCount.t = "number"
           /\ suggestions[k].mutualCount.n >= suggestions[k + 1].mutualCount.n

\* C11: every suggestion for a stored user u carries as mutualCount the
\* number of followees of u that follow the suggested candidate (2 when the
\* candidate is reached through two followees, 0 when through none).
C11_MutualCountIsTwoHopPaths ==
  \A u \in StoredUserIds :
     LET suggestions == SuggestionsOf(u)
     IN \A k \in 1..Len(suggestions) :
           /\ suggestions[k].isUser
           /\ suggestions[k].mutualCount =
                Num(Cardinality({i \in 1..Len(follows) :
                       /\ Follows(u, follows[i].followerId)
                       /\ follows[i].followeeId = suggestions[k].id}))

\* C12: a deletePost(p) that succeeds leaves no like edge on p and no post
\* p, so that listLikers(p) answers NotFound from then on.
C12_DeleteCascades ==
  /\ [][\A id \in PostIdInputs :
          deletePost(id) /\ resp'.status = 204 =>
            /\ \A j \in 1..Len(likes') : likes'[j].postId # id
            /\ \A i \in 1..Len(posts') : posts'[i].id # id
            /\ (listLikers(id).status)' = 404]_vars
  /\ [][\A id \in PostIdInputs :
          listLikers(id).status = 404 => (listLikers(id).status)' = 404]_vars

\* C13: follow(a,b) on a pair whose edge is present fails with the Conflict
\* error and leaves the follows unchanged; unfollow(a,b) on a pair of ids
\* whose edge is absent fails with NotFound, and neither request has any
\* side effect on the store.
C13_IdempotentFailure ==
  /\ [](\A a, b \in UserIdInputs \ {Missing} :
          IF Follows(a, b)
          THEN /\ FailureKind(followResult(a, b).error) = "Conflict"
               /\ followResult(a, b).follows = follows
          ELSE /\ FailureKind(unfollowResult(a, b).error) = "NotFound"
               /\ unfollowResult(a, b).status = 404
               /\ unfollowResult(a, b).follows = follows)
  /\ [][resp'.op \in {"follow", "unfollow"} /\ resp'.error # ""
          => store' = store]_vars

\* An unfollow of an absent pair has just been refused while other edges
\* are stored.
C13_Witness ==
  /\ resp.op = "unfollow" /\ resp.error = "follow relationship not found"
  /\ follows # <<>>

\* C14: for a stored user u and a stored post p with no like edge (u,p), a
\* like(u,p) that succeeds, followed at once by unlike(u,p), gives back the
\* likes and the posts (every likesCount) of before the like.
C14_LikeUnlikeRoundTrip ==
  [][resp'.op = "like" /\ resp'.status = 201 =>
       \A u \in StoredUserIds, p \in PostIdInputs :
          HasPost(p) /\ ~alreadyLiked(u, p) /\ like(p, u) =>
            /\ (unlikeResult(p, u).status)' = 200
            /\ (unlikeResult(p, u).likes)' = likes
            /\ (unlikeResult(p, u).posts)' = posts]_vars

\* From the empty store, a like of a fresh post has been undone by an
\* unlike: the post is back at 0 likes and no edge is left.
C14_Witness ==
  /\ ~Seeded
  /\ resp.op = "unlike" /\ resp.status = 200 /\ resp.likesCount = Num(0)
  /\ likes = <<>>
  /\ \E i \in 1..Len(posts) : posts[i].likesCount = 0

\* C15: the likesCount of every stored post is >= 0 in every reachable
\* state, whatever unlike requests, refused or not, were made against it.
C15_LikesCountNeverNegative ==
  \A i \in 1..Len(posts) : posts[i].likesCount >= 0

\* An unlike has just been refused for want of an edge while a stored post
\* stands at 0 likes.
C15_Witness ==
  /\ resp.op = "unlike" /\ resp.error = "like not found"
  /\ \E i \in 1..Len(posts) : posts[i].likesCount = 0

\* C16: for every stored post p, listLikers(p) holds exactly the users that
\* have a like edge on p, each once, so that its length is p.likesCount.
C16_LikersAreTheLikeEdges ==
  \A i \in 1..Len(posts) :
     LET p == posts[i].id
         likers == listLikers(p).body
     IN /\ listLikers(p).status = 200
        /\ \A k \in 1..Len(likers) : likers[k].t = "user"
        /\ \A k, m \in 1..Len(likers) : likers[k].id = likers[m].id => k = m
        /\ {likers[k].id : k \in 1..Len(likers)}
             = {u \in StoredUserIds : \E j \in 1..Len(likes) : likes[j] = Like(u, p)}
        /\ Len(likers) = posts[i].likesCount

\* The request bodies that pass the two name checks, and the nameLower the
\* handler derives from each
NamedPayloads ==
  {payload \in DOMAIN UserPayloads :
     ~NotAName(UserPayloads[payload].username)
     /\ ~NotAName(UserPayloads[payload].displayName)}
nameLowerOf ==
  [payload \in NamedPayloads |-> ToLowerCase(Trim(UserPayloads[payload].username.s))]

\* C17: no two stored users have usernames that are equal ignoring case; a
\* createUser whose username matches a stored one ignoring case is refused
\* with the Conflict error and stores no user.
C17_UsernamesUniqueIgnoringCase ==
  /\ [](\A i, j \in 1..Len(users) :
          i < j => ToLowerCase(users[i].username) # ToLowerCase(users[j].username))
  /\ [][resp'.op = "createUser" =>
          IF FailureKind(resp'.error) = "Conflict"
          THEN users' = users
          ELSE \A payload \in NamedPayloads :
                  (\E i \in 1..Len(users) :
                      ToLowerCase(users[i].username) = nameLowerOf[payload])
                  => ~createUser(payload)]_vars

\* A username that differs from a stored one only in case has just been
\* refused.
C17_Witness ==
  /\ resp.op = "createUser" /\ resp.error = "username already taken"
  /\ \E i \in 1..Len(users) :
        /\ users[i].username # ToLowerCase(users[i].username)
        /\ \E payload \in DOMAIN UserPayloads :
              /\ UserPayloads[payload].username.t = "string"
              /\ Trim(UserPayloads[payload].username.s) # users[i].username
              /\ ToLowerCase(Trim(UserPayloads[payload].username.s))
                   = ToLowerCase(users[i].username)

\* C18: for every stored user u the profile's followerCount is the length
\* of followersOf(u) and its followingCount the length of followingOf(u).
C18_CountsAgreeWithLists ==
  \A u \in StoredUserIds :
     /\ profile(u).status = 200
     /\ profile(u).followerCount = Len(followersOf(u).body)
     /\ profile(u).followingCount = Len(followingOf(u).body)

\* After an unfollow, some user still has followers and followees.
C18_Witness ==
  /\ resp.op = "unfollow" /\ resp.status = 200
  /\ \E u \in StoredUserIds :
        profile(u).followerCount >= 1 /\ profile(u).followingCount >= 1

\* C19: a createUser, createPost, deletePost, follow, unfollow, like or
\* unlike request that fails leaves users, posts (every likesCount), follows
\* and likes exactly as they were.
C19_FailuresChangeNothing ==
  [][resp'.error # "" => store' = store]_vars

\* An unlike has just been refused for want of an edge on a post that has
\* likes to lose.
C19_Witness ==
  /\ resp.op = "unlike" /\ resp.status = 404 /\ resp.error = "like not found"
  /\ \E i \in 1..Len(posts) : posts[i].likesCount >= 1

\* C20 (as stated): a failure is reported in the category of its kind, and
\* the three categories differ: Validation is answered 400, NotFound 404,
\* and a Conflict (duplicate follow, like or username) with neither of them.
C20_ThreeCategories ==
  /\ FailureKind(resp.error) = "Validation" => resp.status = 400
  /\ FailureKind(resp.error) = "NotFound" => resp.status = 404
  /\ FailureKind(resp.error) = "Conflict" => resp.status \notin {400, 404}

\* C20 (amended): every failure is reported with status 400, 404 or 500:
\* 404 exactly for NotFound, 400 for Validation and for Conflict alike, and
\* 500 only when createUser throws.
C20_TwoCategories ==
  resp.error # "" =>
    \/ FailureKind(resp.error) = "NotFound" /\ resp.status = 404
    \/ FailureKind(resp.error) \in {"Validation", "Conflict"} /\ resp.status = 400
    \/ FailureKind(resp.error) = "Crash" /\ resp.status = 500 /\ resp.op = "createUser"

\* A duplicate username has just been answered with the status of a bad
\* request.
C20_Witness ==
  /\ resp.op = "createUser" /\ resp.status = 400
  /\ FailureKind(resp.error) = "Conflict"
  /\ users # <<>>

\* C21: the feed, both suggestion routes, the follower and following lists
\* and the profile answer NotFound (404) for every id that is not a stored
\* user, and listLikers answers NotFound for every id that is not a stored
\* post.
C21_ReadsOfUnknownIdsAreNotFound ==
  /\ \A id \in UserIdInputs \ StoredUserIds :
        /\ buildFeed(id).status = 404
        /\ suggest(id).status = 404
        /\ suggestionsRoute(id).status = 404
        /\ followersOf(id).status = 404
        /\ followingOf(id).status = 404
        /\ profile(id).status = 404
  /\ \A p \in PostIdInputs : ~HasPost(p) => listLikers(p).status = 404

\* The edges that end a two-hop path from a to c: an edge into c whose
\* source a follows.
SecondHops(a, c) ==
  {i \in 1..Len(follows) :
     follows[i].followeeId = c /\ Follows(a, follows[i].followerId)}
\* suggest(a) has an entry for the stored user c
Suggested(a, c) ==
  \E k \in 1..Len(SuggestionsOf(a)) :
     SuggestionsOf(a)[k].isUser /\ SuggestionsOf(a)[k].id = c

\* C22: for stored users a and c, when a does not follow c and exactly one
\* followee b of a follows c, suggest(a) lists c with mutualCount = 1; while
\* a follows c, suggest(a) does not list c; and an edge a -> c, once stored,
\* stays until an unfollow(a, c) succeeds (or the store is reset).
C22_SuggestedUntilFollowed ==
  /\ [](\A a \in StoredUserIds : \A c \in StoredUserIds \ {a} :
           LET suggestions == SuggestionsOf(a)
           IN IF Follows(a, c)
              THEN \A k \in 1..Len(suggestions) : suggestions[k].id # c
              ELSE Cardinality(SecondHops(a, c)) = 1 =>
                     \E k \in 1..Len(suggestions) :
                        suggestions[k] = SuggestionEntry(c, Num(1)))
  /\ [][\A i \in 1..Len(follows) :
           (\A j \in 1..Len(follows') : follows'[j] # follows[i]) =>
              \/ resp'.op = "reset"
              \/ /\ resp'.op = "unfollow" /\ resp'.status = 200
                 /\ follows' = Splice(follows, i)]_vars

\* a has just followed c directly while following b, who follows c
C22_Witness ==
  /\ resp.op = "follow" /\ resp.status = 201
  /\ \E a \in StoredUserIds : \E b, c \in StoredUserIds \ {a} :
        /\ b # c /\ Follows(a, b) /\ Follows(b, c)
        /\ follows[Len(follows)] = Follow(a, c)
        /\ ~Suggested(a, c)

\* Every stored post of b is an entry of buildFeed(a)
FeedHasAllPostsOf(a, b) ==
  \E feed \in {FeedOf(a)} :
     \A i \in 1..Len(posts) :
        posts[i].authorId = b => \E k \in 1..Len(feed) : feed[k].post = posts[i]
\* No entry of buildFeed(a) is a post of b
FeedHasNoPostOf(a, b) ==
  \E feed \in {FeedOf(a)} :
     \A k \in 1..Len(feed) : feed[k].post.authorId # b

\* C23: in every state, buildFeed(a) holds every stored post of each b with
\* a stored edge a -> b and no post of anyone else; a follow(a, b) that
\* succeeds stores the edge a -> b and no edge b -> a (so the posts of a
\* do not come into buildFeed(b)); an unfollow(a, b) that succeeds removes
\* the edge a -> b, after which no post of b is in buildFeed(a).
C23_FollowIsDirectedAndDrivesFeed ==
  /\ [](\A a \in UserIdInputs : buildFeed(a).status = 200 =>
           \A b \in UserIdInputs \ {a} :
              IF Follows(a, b) THEN FeedHasAllPostsOf(a, b)
              ELSE FeedHasNoPostOf(a, b))
  /\ [][resp'.op = "follow" /\ resp'.status = 201 =>
          \E a, b \in UserIdInputs :
             /\ follows' = Append(follows, Follow(a, b))
             /\ buildFeed(a).status = 200
             /\ ~Follows(b, a) => ~Follows(b, a)']_vars
  /\ [][resp'.op = "unfollow" /\ resp'.status = 200 =>
          \E a, b \in UserIdInputs :
             /\ \E n \in 1..Len(follows) :
                   follows[n] = Follow(a, b) /\ follows' = Splice(follows, n)
             /\ ~Follows(a, b)']_vars

\* a has just followed b, who does not follow back; both have posts, and
\* only the posts of b are in the feed of a
C23_Witness ==
  /\ resp.op = "follow" /\ resp.status = 201
  /\ \E a, b \in StoredUserIds :
        /\ follows[Len(follows)] = Follow(a, b) /\ ~Follows(b, a)
        /\ \E i, j \in 1..Len(posts) : posts[i].authorId = b /\ posts[j].authorId = a
        /\ FeedHasAllPostsOf(a, b) /\ FeedHasNoPostOf(b, a)

\* C24: every createUser request ends in one of three outcomes: a new user
\* record is stored (fresh id, trimmed username and displayName, bio
\* defaulting to empty, profilePicUrl defaulting to null), or it fails with
\* Validation, or it fails with Conflict; a failure stores nothing.
C24_CreateUserThreeOutcomes ==
  [][resp'.op = "createUser" =>
       \/ /\ resp'.status = 201
          /\ \E payload \in DOMAIN UserPayloads :
               LET body == UserPayloads[payload]
               IN /\ ~NotAName(body.username) /\ ~NotAName(body.displayName)
                  /\ Len(users') = Len(users) + 1
                  /\ SubSeq(users', 1, Len(users)) = users
                  /\ LET user == users'[Len(users')]
                     IN /\ user.id \notin StoredUserIds
                        /\ user.username = Trim(body.username.s)
                        /\ user.displayName = Trim(body.displayName.s)
                        /\ body.bio = Undefined => user.bio = Str(<<>>)
                        /\ body.profilePicUrl = Undefined => user.profilePicUrl = Null
       \/ /\ FailureKind(resp'.error) \in {"Validation", "Conflict"}
          /\ users' = users]_vars

\* C25: a createPost request that succeeds stores one post whose authorId is
\* the id of a stored user, with likesCount = 0 and no like edge on it; any
\* other createPost request fails with Validation and stores no post.
C25_CreatePostNeedsStoredAuthor ==
  [][resp'.op = "createPost" =>
       IF resp'.status = 201
       THEN /\ Len(posts') = Len(posts) + 1
            /\ SubSeq(posts', 1, Len(posts)) = posts
            /\ posts'[Len(posts')].authorId \in StoredUserIds
            /\ posts'[Len(posts')].likesCount = 0
            /\ \A j \in 1..Len(likes') : likes'[j].postId # posts'[Len(posts')].id
       ELSE FailureKind(resp'.error) = "Validation" /\ posts' = posts]_vars

\* C26: a reset() leaves users, posts, follows and likes empty, as in a
\* fresh store; right after it every read by the id of a user or post
\* stored before it answers NotFound, and listUsers and listPosts are empty.
C26_ResetEmptiesTheStore ==
  [][resp'.op = "reset" =>
       /\ users' = <<>> /\ posts' = <<>> /\ follows' = <<>> /\ likes' = <<>>
       /\ \A u \in StoredUserIds :
             /\ (profile(u).status)' = 404
             /\ (buildFeed(u).status)' = 404
             /\ (suggest(u).status)' = 404
             /\ (suggestionsRoute(u).status)' = 404
             /\ (followersOf(u).status)' = 404
             /\ (followingOf(u).status)' = 404
       /\ \A p \in {posts[i].id : i \in 1..Len(posts)} :
             /\ (getPost(p).status)' = 404
             /\ (listLikers(p).status)' = 404
       /\ listUsers'.body = <<>>
       /\ listPosts'.body = <<>>]_vars

\* The first request after seed() was a reset of the seeded store
C26_Witness ==
  /\ resp.op = "reset" /\ seedOps = 1
  /\ users = <<>> /\ posts = <<>> /\ follows = <<>> /\ likes = <<>>

\* C27: on every step other than a reset, each stored user is still stored
\* afterwards with the same record (id, username, displayName, bio,
\* profilePicUrl, createdAt); a reset removes every user.
C27_UsersStayUntilReset ==
  [][IF resp'.op = "reset" THEN users' = <<>>
     ELSE /\ Len(users') >= Len(users)
          /\ \A i \in 1..Len(users) : users'[i] = users[i]]_vars

\* A user is stored and a post has since been created and deleted
C27_Witness ==
  /\ users # <<>> /\ postSeq >= 1 /\ posts = <<>>
  /\ resp.op = "deletePost" /\ resp.status = 204

C29_SuggestionRoutesAgree ==
  \A id \in UserIdInputs :
     \E viaUsers \in {suggest(id)} : \E viaSuggestions \in {suggestionsRoute(id)} :
        /\ viaSuggestions.status = viaUsers.status
        /\ viaSuggestions.body = viaUsers.body

\* After a follow, the dedicated route lists for some stored user at least
\* two candidates, the first with a mutual connection and the last with none
C29_Witness ==
  /\ resp.op = "follow" /\ resp.status = 201
  /\ \E a \in StoredUserIds :
        \E body \in {suggestionsRoute(a).body} :
           /\ Len(body) >= 2
           /\ body[1].mutualCount = Num(1)
           /\ body[Len(body)].mutualCount = Num(0)
           /\ body = suggest(a).body

\* C30: an unfollow or an unlike that succeeds is answered with status 204.
C30_UnfollowAndUnlikeAnswer204 ==
  resp.op \in {"unfollow", "unlike"} /\ resp.error = "" => resp.status = 204

C32_FollowPrecedence ==
  \A a, b \in UserIdInputs :
     \E r \in {followResult(a, b)} :
        IF a = Missing \/ b = Missing
        THEN FailureKind(r.error) = "Validation" /\ r.follows = follows
        ELSE IF a = b
        THEN r.error = "a user cannot follow themselves" /\ r.follows = follows
        ELSE IF ~HasUser(a) \/ ~HasUser(b)
        THEN FailureKind(r.error) = "NotFound" /\ r.follows = follows
        ELSE IF Follows(a, b)
        THEN FailureKind(r.error) = "Conflict" /\ r.follows = follows
        ELSE r.status = 201 /\ r.follows = Append(follows, Follow(a, b))

C34_LikePrecedence ==
  \A u \in UserIdInputs, p \in PostIdInputs :
     /\ \E r \in {likeResult(p, u)} :
           IF u = Missing
           THEN FailureKind(r.error) = "Validation" /\ r.likes = likes /\ r.posts = posts
           ELSE IF ~HasPost(p) \/ ~HasUser(u)
           THEN FailureKind(r.error) = "NotFound" /\ r.likes = likes /\ r.posts = posts
           ELSE IF Like(u, p) \in Range(likes)
           THEN /\ r.status = 400 /\ r.error = "post already liked by this user"
                /\ r.likes = likes /\ r.posts = posts
           ELSE /\ r.status = 201
                /\ r.likes = Append(likes, Like(u, p))
                /\ LikesCountOf(r.posts, p) = Num(PostAt(p).likesCount + 1)
     /\ \E r \in {unlikeResult(p, u)} :
           IF u = Missing
           THEN FailureKind(r.error) = "Validation" /\ r.likes = likes /\ r.posts = posts
           ELSE IF ~HasPost(p) \/ Like(u, p) \notin Range(likes)
           THEN FailureKind(r.error) = "NotFound" /\ r.likes = likes /\ r.posts = posts
           ELSE /\ r.status = 200
                /\ r.likes = SelectSeq(likes, LAMBDA e : e # Like(u, p))
                /\ LikesCountOf(r.posts, p) = Num(PostAt(p).likesCount - 1)

\* C35: every like that succeeds raises the likesCount of one stored post,
\* its target, by exactly 1 and answers that count; every unlike that
\* succeeds lowers it by exactly 1 and answers that count; and in every state
\* a stored post with a like edge has likesCount >= 1.
C35_LikesCountMovesByOne ==
  /\ [](\A i \in 1..Len(posts) :
           LikeEdgesOn(posts[i].id) # {} => posts[i].likesCount >= 1)
  /\ [][resp'.op \in {"like", "unlike"} /\ resp'.error = "" =>
          /\ Len(posts') = Len(posts)
          /\ \E i \in 1..Len(posts) :
                /\ posts'[i].likesCount =
                     posts[i].likesCount + (IF resp'.op = "like" THEN 1 ELSE -1)
                /\ resp'.likesCount = Num(posts'[i].likesCount)
                /\ Cardinality(LikeEdgesOn(posts[i].id)') =
                     Cardinality(LikeEdgesOn(posts[i].id))
                       + (IF resp'.op = "like" THEN 1 ELSE -1)
                /\ \A k \in 1..Len(posts) : k # i => posts'[k] = posts[k]]_vars

\* The posts qs are the posts ps with nothing changed but the likesCount of
\* the post with id p
SameButLikesCount(ps, qs, p) ==
  /\ Len(qs) = Len(ps)
  /\ \A i \in 1..Len(ps) :
        IF ps[i].id = p
        THEN qs[i] = [ps[i] EXCEPT !.likesCount = qs[i].likesCount]
        ELSE qs[i] = ps[i]

\* C36: a deletePost(p) that succeeds takes away the post p and the like
\* edges on p and nothing else; a like or unlike (u,p) that succeeds changes
\* the one edge (u,p) and the likesCount of p and nothing else; follow and
\* unfollow leave users, posts and likes as they were; createUser and
\* createPost leave the other collections as they were and add at most one
\* record at the end of their own.
C36_MutationsTouchOnlyTheirTarget ==
  /\ [][resp'.op = "deletePost" /\ resp'.status = 204 =>
          /\ users' = users /\ follows' = follows
          /\ \E p \in PostIdInputs :
                /\ posts' = SelectSeq(posts, LAMBDA q : q.id # p)
                /\ Len(posts') >= Len(posts) - 1
                /\ likes' = SelectSeq(likes, LAMBDA e : e.postId # p)]_vars
  /\ [][resp'.op \in {"like", "unlike"} /\ resp'.error = "" =>
          /\ users' = users /\ follows' = follows
          /\ \E u \in UserIdInputs, p \in PostIdInputs :
                /\ IF resp'.op = "like"
                   THEN Like(u, p) \notin Range(likes)
                        /\ likes' = Append(likes, Like(u, p))
                   ELSE Len(likes') = Len(likes) - 1
                        /\ likes' = SelectSeq(likes, LAMBDA e : e # Like(u, p))
                /\ SameButLikesCount(posts, posts', p)]_vars
  /\ [][resp'.op \in {"follow", "unfollow"} =>
          users' = users /\ posts' = posts /\ likes' = likes]_vars
  /\ [][resp'.op = "createUser" =>
          /\ posts' = posts /\ follows' = follows /\ likes' = likes
          /\ Len(users') <= Len(users) + 1
          /\ SubSeq(users', 1, Len(users)) = users]_vars
  /\ [][resp'.op = "createPost" =>
          /\ users' = users /\ follows' = follows /\ likes' = likes
          /\ Len(posts') <= Len(posts) + 1
          /\ SubSeq(posts', 1, Len(posts)) = posts]_vars

\* A post with likes of its own has just been deleted while another post
\* keeps its like edges and its likesCount
C36_Witness ==
  /\ resp.op = "deletePost" /\ resp.status = 204
  /\ Len(posts) = Len(seedPosts) - 1
  /\ Len(likes) = Len(likeRelationships) - 2
  /\ \E i \in 1..Len(posts) :
        posts[i].likesCount = 2 /\ Cardinality(LikeEdgesOn(posts[i].id)) = 2

\* C37: in every reachable state both ends of every follow edge are stored
\* users, the user and the post of every like edge are stored, and the
\* authorId of every stored post is the id of a stored user.
C37_ReferentialIntegrity ==
  /\ \A n \in 1..Len(follows) :
        HasUser(follows[n].followerId) /\ HasUser(follows[n].followeeId)
  /\ \A j \in 1..Len(likes) : HasUser(likes[j].userId) /\ HasPost(likes[j].postId)
  /\ \A i \in 1..Len(posts) : HasUser(posts[i].authorId)

\* C38: for every request id u, each entry of buildFeed(u) carries as author
\* the stored user whose id is the post's authorId, never the null marker.
C38_FeedAuthorsAreStoredUsers ==
  \A u \in UserIdInputs :
     \E feed \in {FeedOf(u)} :
        \A k \in 1..Len(feed) :
           /\ feed[k].author.t = "user"
           /\ feed[k].author.id = feed[k].post.authorId
           /\ HasUser(feed[k].post.authorId)

====
